---- MODULE Spec2Model ----
(***************************************************************************)
(* Primary-backup key-value store of praveenkullu/dsdemo.                  *)
(*                                                                         *)
(*   vs   the ViewServer (viewservice/server.go): currentView, servers,    *)
(*        idleServers, primaryAcked.  time.Time is kept as the time since  *)
(*        a server's last Ping (SincePing = now - LastPingTime), which is  *)
(*        all the code ever reads of it; the clock moves with the ticker.  *)
(*   kv   one KVServer per address (kvserver/server.go).                   *)
(***************************************************************************)
EXTENDS Integers, Sequences, FiniteSets, TLC

\* ------------------------------------------------------------------ bounds
MaxView == 3
VaMaxView == 5
MaxPuts == 2
MaxKills == 1
MaxTransfers == 1

\* --------------------------------------------------------------- constants
PingInterval == 500
DeadInterval == 1500
TickerInterval == 500

\* The addresses the ViewServer may hear from, and the kvserver processes, in
\* the order test.sh starts them.
Servers == {"R1", "R2", "R3"}
StartOrder == <<"R1", "R2">>
Replicas == {StartOrder[i] : i \in 1..Len(StartOrder)}
NoServer == ""
Keys == {"a"}
\* A Put's value is the number of the client's Put; 0 stands for "no such key".
NoValue == 0

VARIABLES
  vs,        \* the ViewServer
  pinged,    \* history: who has pinged with the current view number
  kv,        \* kv[s]: the KVServer at address s
  transfers, \* transfers[s]: the transferState goroutines running at s
  call,      \* the client's Put RPC being served, if any
  ck,        \* the client (client/client.go) and the call it is making
  promoted,  \* history: <<primary, backup>> of every failover from a primary
             \* that was not running (killed, or an address with no process)
  acks,      \* history: the Puts answered OK to the client, in order
  applied,   \* history: <<view number, server>> of every Put applied (line 301)
  synced,    \* history: synced[b], the snapshot last sent to b and what followed
  kills,     \* history: processes killed so far
  locks      \* the mutexes (kv.mu, vs.mu) and the goroutines that take them

vars == <<vs, pinged, promoted, kv, transfers, call, ck, acks, applied, synced, kills, locks>>
kvVars == <<kv, transfers, call, ck, acks, applied, synced, kills, locks>>

\* ============================================================ view service
View0 == [ViewNumber |-> 0, Primary |-> NoServer, Backup |-> NoServer]

\* StartServer: the ViewServer after construction.
VsInit ==
  [currentView |-> View0,
   servers |-> <<>>,
   idleServers |-> <<>>,
   primaryAcked |-> TRUE]

Registered(st) == DOMAIN st.servers

IsAlive(st, name) == name \in Registered(st) /\ st.servers[name].Alive

\* vs.currentView.ViewNumber++
NextViewNumber(n) == n + 1

\* removeFromIdle
RemoveFromIdle(idle, serverName) ==
  SelectSeq(idle, LAMBDA name : name # serverName)

\* Ping, lines 88-103: refresh or create the caller's ServerInfo.
PingRecord(st, name) ==
  IF name \in Registered(st)
  THEN [st EXCEPT !.servers[name] = [SincePing |-> 0, Alive |-> TRUE]]
  ELSE [st EXCEPT
          !.servers = [n \in Registered(st) \cup {name} |->
                         IF n = name THEN [SincePing |-> 0, Alive |-> TRUE]
                         ELSE st.servers[n]],
          !.idleServers =
             IF name # st.currentView.Primary /\ name # st.currentView.Backup
             THEN Append(@, name) ELSE @]

\* Ping, lines 105-108: the primary acknowledges the current view.
PingAcks(st, name, viewNumber) ==
  name = st.currentView.Primary /\ viewNumber = st.currentView.ViewNumber

\* A Ping handler that makes the caller primary when the view has none.
VsPingTakesOver(st, name, viewNumber) ==
  LET r == PingRecord(st, name)
  IN  IF r.currentView.Primary = NoServer
      THEN [r EXCEPT !.currentView.Primary = name]
      ELSE IF PingAcks(r, name, viewNumber)
      THEN [r EXCEPT !.primaryAcked = TRUE] ELSE r

\* The whole Ping handler; the reply is the currentView of the result.
VsPing(st, name, viewNumber) ==
  LET r == PingRecord(st, name)
  IN  IF PingAcks(r, name, viewNumber) THEN [r EXCEPT !.primaryAcked = TRUE] ELSE r

\* The ticker period elapses: every LastPingTime is TickerInterval older.  Past
\* DeadInterval the exact age is never read again, so it is kept saturated.
Elapse(st) ==
  [st EXCEPT !.servers =
     [n \in Registered(st) |->
        [st.servers[n] EXCEPT !.SincePing =
           IF @ > DeadInterval THEN @ ELSE @ + TickerInterval]]]

\* A failure detector that never declares a server dead.
NeverMarkDead(st) == st

\* A failure detector that declares a server dead at DeadInterval already.
MarkDeadEarly(st) ==
  [st EXCEPT !.servers =
     [n \in Registered(st) |->
        IF st.servers[n].SincePing >= DeadInterval
        THEN [st.servers[n] EXCEPT !.Alive = FALSE]
        ELSE st.servers[n]]]

\* checkFailuresAndPromote, lines 143-151
MarkDead(st) ==
  [st EXCEPT !.servers =
     [n \in Registered(st) |->
        IF st.servers[n].SincePing > DeadInterval
        THEN [st.servers[n] EXCEPT !.Alive = FALSE]
        ELSE st.servers[n]]]

\* line 159: the gate of the promotion
MayPromote(st) == st.primaryAcked /\ st.currentView.Backup # NoServer

\* A promotion that leaves the view acknowledged.
PromoteBackupAcked(st) ==
  [st EXCEPT !.currentView = [ViewNumber |-> NextViewNumber(@.ViewNumber),
                              Primary |-> @.Backup,
                              Backup |-> NoServer],
             !.primaryAcked = TRUE]

\* lines 163-168
PromoteBackup(st) ==
  [st EXCEPT !.currentView = [ViewNumber |-> NextViewNumber(@.ViewNumber),
                              Primary |-> @.Backup,
                              Backup |-> NoServer],
             !.primaryAcked = FALSE]

\* A removal that starts the views over at the initial view.
RemovePrimaryReset(st) ==
  [st EXCEPT !.currentView = View0, !.primaryAcked = TRUE]

\* lines 171-175
RemovePrimary(st) ==
  [st EXCEPT !.currentView = [@ EXCEPT !.Primary = NoServer,
                                       !.ViewNumber = NextViewNumber(@)],
             !.primaryAcked = TRUE]

\* A primary check that removes a dead primary whether or not it has acked.
CheckPrimaryUngated(st) ==
  IF st.currentView.Primary # NoServer
     /\ st.currentView.Primary \in Registered(st)
     /\ ~st.servers[st.currentView.Primary].Alive
  THEN IF MayPromote(st)
       THEN IF IsAlive(st, st.currentView.Backup) THEN PromoteBackup(st) ELSE st
       ELSE RemovePrimary(st)
  ELSE st

\* checkFailuresAndPromote, lines 153-178
CheckPrimary(st) ==
  IF st.currentView.Primary # NoServer
     /\ st.currentView.Primary \in Registered(st)
     /\ ~st.servers[st.currentView.Primary].Alive
  THEN IF MayPromote(st)
       THEN IF IsAlive(st, st.currentView.Backup) THEN PromoteBackup(st) ELSE st
       ELSE IF st.primaryAcked THEN RemovePrimary(st) ELSE st
  ELSE st

\* A backup check that drops the primary together with the dead backup.
CheckBackupDropsPrimary(st) ==
  IF st.currentView.Backup # NoServer
     /\ st.currentView.Backup \in Registered(st)
     /\ ~st.servers[st.currentView.Backup].Alive
  THEN [st EXCEPT !.currentView = [ViewNumber |-> NextViewNumber(@.ViewNumber),
                                   Primary |-> NoServer,
                                   Backup |-> NoServer]]
  ELSE st

\* checkFailuresAndPromote, lines 180-188
CheckBackup(st) ==
  IF st.currentView.Backup # NoServer
     /\ st.currentView.Backup \in Registered(st)
     /\ ~st.servers[st.currentView.Backup].Alive
  THEN [st EXCEPT !.currentView = [@ EXCEPT !.Backup = NoServer,
                                           !.ViewNumber = NextViewNumber(@)]]
  ELSE st

\* line 193: the servers the range loop may stop at (Go's map order is unspecified)
PrimaryCandidates(st) ==
  {n \in Registered(st) : st.servers[n].Alive /\ n # st.currentView.Backup}

\* An assignment of the primary that leaves the view acknowledged.
MakePrimaryAcked(st, name) ==
  [st EXCEPT !.currentView = [@ EXCEPT !.Primary = name,
                                       !.ViewNumber = NextViewNumber(@)],
             !.primaryAcked = TRUE,
             !.idleServers = RemoveFromIdle(@, name)]

\* lines 195-199
MakePrimary(st, name) ==
  [st EXCEPT !.currentView = [@ EXCEPT !.Primary = name,
                                       !.ViewNumber = NextViewNumber(@)],
             !.primaryAcked = FALSE,
             !.idleServers = RemoveFromIdle(@, name)]

\* checkFailuresAndPromote, lines 190-203: every outcome of the loop
AssignPrimary(st) ==
  IF st.currentView.Primary = NoServer /\ st.primaryAcked
     /\ PrimaryCandidates(st) # {}
  THEN {MakePrimary(st, n) : n \in PrimaryCandidates(st)}
  ELSE {st}

\* A gate of the backup assignment that does not wait for the primary's ack.
MayAssignBackupUnacked(st) ==
  st.currentView.Backup = NoServer /\ st.currentView.Primary # NoServer

\* line 206: the gate of the backup assignment
MayAssignBackup(st) ==
  st.currentView.Backup = NoServer /\ st.currentView.Primary # NoServer
  /\ st.primaryAcked

\* Candidates for backup that include the primary.
BackupCandidatesAny(st) ==
  {n \in Registered(st) : st.servers[n].Alive}

\* line 208
BackupCandidates(st) ==
  {n \in Registered(st) : st.servers[n].Alive /\ n # st.currentView.Primary}

\* A backup assignment that keeps the view number.
MakeBackupSameNumber(st, name) ==
  [st EXCEPT !.currentView = [@ EXCEPT !.Backup = name],
             !.idleServers = RemoveFromIdle(@, name)]

\* lines 210-213
MakeBackup(st, name) ==
  [st EXCEPT !.currentView = [@ EXCEPT !.Backup = name,
                                       !.ViewNumber = NextViewNumber(@)],
             !.idleServers = RemoveFromIdle(@, name)]

\* checkFailuresAndPromote, lines 205-217: every outcome of the loop
AssignBackup(st) ==
  IF MayAssignBackup(st) /\ BackupCandidates(st) # {}
  THEN {MakeBackup(st, n) : n \in BackupCandidates(st)}
  ELSE {st}

\* checkFailuresAndPromote as a whole: the states one call may leave
CheckFailuresAndPromote(st) ==
  UNION {AssignBackup(p) : p \in AssignPrimary(CheckBackup(CheckPrimary(MarkDead(st))))}

\* The promotion a call of checkFailuresAndPromote on st makes, if any.
Promotion(st) ==
  LET m == MarkDead(st)
      c == CheckPrimary(m)
  IN  IF c.currentView.Primary \notin {m.currentView.Primary, NoServer}
      THEN {<<m.currentView.Primary, c.currentView.Primary>>} ELSE {}

\* The pings seen for the current view: emptied whenever the view number moves.
PingedAfter(old, new, name, viewNumber) ==
  IF viewNumber = new.currentView.ViewNumber THEN old \cup {name} ELSE old

\* =============================================================== kvserver
NoArgs == [Key |-> "", Value |-> NoValue]
NoPut == [pc |-> "none", backup |-> NoServer]
NoCall == [pc |-> "none", server |-> NoServer, args |-> NoArgs, backup |-> NoServer]
NoOp == [type |-> "none", Key |-> "", Value |-> NoValue]
EmptyData == [k \in Keys |-> NoValue]

\* StartServer (kvserver): the KVServer after construction.
KvInit ==
  [dead |-> FALSE,
   currentView |-> View0,
   data |-> EmptyData,
   role |-> "idle",
   lastBackup |-> NoServer,
   syncing |-> FALSE,
   pendingQueue |-> <<>>]

\* handleViewChange, lines 148-155
NewRole(view, me) ==
  IF view.Primary = me THEN "primary"
  ELSE IF view.Backup = me THEN "backup"
  ELSE "idle"

\* handleViewChange, line 164: the view names a backup the primary has not synced
NewBackup(r) ==
  r.currentView.Backup # NoServer /\ r.currentView.Backup # r.lastBackup

\* handleViewChange, lines 146-171, on the record whose currentView is the new view
HandleViewChange(r, me) ==
  LET role == NewRole(r.currentView, me)
  IN  [r EXCEPT !.role = role,
                !.lastBackup =
                   IF role # "primary" THEN @
                   ELSE IF NewBackup(r) THEN r.currentView.Backup
                   ELSE IF r.currentView.Backup = NoServer THEN NoServer
                   ELSE @]

\* handleViewChange, line 167: the goroutine started, if any
Spawned(r, me) ==
  IF NewRole(r.currentView, me) = "primary" /\ NewBackup(r)
  THEN {[backup |-> r.currentView.Backup,
         viewNumber |-> r.currentView.ViewNumber,
         pc |-> "start",
         dataCopy |-> EmptyData,
         pending |-> <<>>,
         put |-> NoPut]}
  ELSE {}

\* ping, lines 128-137: install the reply
InstallView(r, me, view) ==
  LET r1 == [r EXCEPT !.currentView = view]
  IN  IF r.currentView.ViewNumber # view.ViewNumber
      THEN HandleViewChange(r1, me) ELSE r1

\* ping, line 135-136 with handleViewChange line 167
SpawnedByView(r, me, view) ==
  IF r.currentView.ViewNumber # view.ViewNumber
  THEN Spawned([r EXCEPT !.currentView = view], me) ELSE {}

\* A Put handler that does not look at syncing.
PutEntryNoQueue(r) ==
  IF r.role # "primary" THEN "ErrNotPrimary" ELSE "proceed"

\* A Put handler that a backup serves too.
PutEntryAtBackup(r) ==
  IF r.role = "idle" THEN "ErrNotPrimary"
  ELSE IF r.syncing THEN "queue"
  ELSE "proceed"

\* Put, lines 259-271: what the first critical section decides
PutEntry(r) ==
  IF r.role # "primary" THEN "ErrNotPrimary"
  ELSE IF r.syncing THEN "queue"
  ELSE "proceed"

\* Put, line 267
Enqueue(r, args) == [r EXCEPT !.pendingQueue = Append(@, args)]

\* Put, lines 273-297: where the handler goes after reading the backup
AfterEntry(r) ==
  [pc |-> IF r.currentView.Backup # NoServer THEN "forward" ELSE "apply",
   backup |-> r.currentView.Backup]

\* A ForwardUpdate handler that writes whatever the role is.
ForwardUpdateAnyRole(r, args) == [r EXCEPT !.data[args.Key] = args.Value]

\* ForwardUpdate, lines 313-319: reply.Err
ForwardUpdateErr(r) == IF r.role # "backup" THEN "ErrNotPrimary" ELSE "OK"

\* ForwardUpdate, lines 309-321
ForwardUpdate(r, args) ==
  IF r.role # "backup" THEN r
  ELSE [r EXCEPT !.data[args.Key] = args.Value]

\* Put, lines 278-296: Dial and call the backup; every failure is only logged
Forwarded(servers, backup, args) ==
  IF servers[backup].dead THEN servers
  ELSE [servers EXCEPT ![backup] = ForwardUpdate(@, args)]

\* A Put that answers without writing to the store.
ApplyPutSkipped(r, args) == r

\* Put, lines 300-302
ApplyPut(r, args) == [r EXCEPT !.data[args.Key] = args.Value]

\* SyncState, lines 324-338
SyncState(r, data) == [r EXCEPT !.data = data]

\* A Get handler that answers an absent key like any other server.
GetReplyNoKeyAsNotPrimary(r, key) ==
  IF r.role # "primary" \/ r.data[key] = NoValue
  THEN [Value |-> NoValue, Err |-> "ErrNotPrimary"]
  ELSE [Value |-> r.data[key], Err |-> "OK"]

\* Get, lines 235-253
GetReply(r, key) ==
  IF r.role # "primary"
  THEN [Value |-> NoValue, Err |-> "ErrNotPrimary"]
  ELSE IF r.data[key] # NoValue
  THEN [Value |-> r.data[key], Err |-> "OK"]
  ELSE [Value |-> NoValue, Err |-> "ErrNoKey"]

\* client.go Get, lines 57-73: what the client does with the outcome of its call.
\* err says that the RPC failed.  The value returned to the program is kept in
\* got; the empty string is NoValue.
GetTurn(c, err, reply) ==
  IF ~err /\ reply.Err = "OK"
  THEN [c EXCEPT !.op = NoOp, !.got = <<reply.Value>>]
  ELSE IF ~err /\ reply.Err = "ErrNoKey"
  THEN [c EXCEPT !.op = NoOp, !.got = <<NoValue>>]
  ELSE [c EXCEPT !.currentPrimary = NoServer]

\* A client whose Put returns after any attempt.
PutTurnGivesUp(c, err, replyErr) ==
  IF ~err /\ replyErr = "OK"
  THEN [c EXCEPT !.op = NoOp]
  ELSE [c EXCEPT !.op = NoOp, !.currentPrimary = NoServer]

\* client.go Put, lines 92-106: what the client does with the outcome of its
\* call.  err says that the RPC failed.
PutTurn(c, err, replyErr) ==
  IF ~err /\ replyErr = "OK"
  THEN [c EXCEPT !.op = NoOp]
  ELSE IF err \/ replyErr = "ErrNotPrimary"
  THEN [c EXCEPT !.currentPrimary = NoServer]
  ELSE c

\* A Put answered OK, as the history keeps it.
Ack(args, s, r, queued) ==
  [Key |-> args.Key, Value |-> args.Value, server |-> s,
   view |-> r.currentView, queued |-> queued]

\* No snapshot was sent to this server.
NoSync ==
  [installed |-> FALSE, done |-> FALSE, viewNumber |-> 0, store |-> EmptyData]

\* The history of a snapshot: SyncState installed it at the backup.
SnapshotSent(t) ==
  [installed |-> TRUE, done |-> FALSE, viewNumber |-> t.viewNumber,
   store |-> t.dataCopy]

\* The history of a snapshot: the primary sent a ForwardUpdate for args to the
\* live server b after the snapshot.
ForwardSent(h, servers, b, args) ==
  IF ~servers[b].dead /\ h[b].installed
  THEN [h EXCEPT ![b].store[args.Key] = args.Value] ELSE h

\* ================================================================ locking
\* The goroutines of a replica that make outbound RPCs: ping calls
\* ViewServer.Ping, transferState calls SyncState and Put calls ForwardUpdate
\* at the peer.  Each takes kv.mu, releases it, makes its call, and takes kv.mu
\* again when the call has returned; the handler of the call runs under the
\* mutex of the callee from its first statement to its return.
Callers == {"ping", "transferState", "Put"}
ViewServiceMu == "VS"
Free == <<>>

\* The positions of a caller, in program order:
\*   locked    ping 108-120, transferState 176-182, Put 257-274
\*   calling   the RPC is sent (lines 122, 204, 291), its handler not started
\*   serving   the handler runs at the callee, under the callee's mutex
\*   returned  the call has returned
\*   relocked  ping 128-137, transferState 215-231, Put 300-302
Positions == <<"idle", "locked", "calling", "serving", "returned", "relocked", "done">>

PositionAfter(pc) ==
  LET i == CHOOSE j \in 1..Len(Positions) : Positions[j] = pc
  IN  Positions[i + 1]

\* A caller that keeps kv.mu from its first Lock to its last Unlock.
HoldsAcrossCall(pc) ==
  pc \in {"locked", "calling", "serving", "returned", "relocked"}

\* The positions at which the caller holds the mutex of its own replica.
Holds(pc) == pc \in {"locked", "relocked"}

\* The mutex the handler of the caller's RPC runs under.
CalleeMu(s, c) ==
  IF c = "ping" THEN ViewServiceMu ELSE CHOOSE q \in Replicas : q # s

LocksInit ==
  [mu |-> [m \in Replicas \cup {ViewServiceMu} |-> Free],
   at |-> [s \in Replicas |-> [c \in Callers |-> "idle"]]]

\* The caller c of replica s moves to its next position, if the mutexes let
\* it: the result is the set of the states it may leave, empty when it blocks.
Advanced(l, s, c) ==
  LET pc == l.at[s][c]
      nxt == PositionAfter(pc)
      me == <<s, c>>
      callee == CalleeMu(s, c)
      own == IF Holds(nxt) /\ ~Holds(pc) THEN "lock"
             ELSE IF Holds(pc) /\ ~Holds(nxt) THEN "unlock" ELSE "keep"
      l1 == [l EXCEPT !.at[s][c] = nxt,
                      !.mu[s] = IF own = "lock" THEN me
                                ELSE IF own = "unlock" THEN Free ELSE @]
  IN  IF pc = "done" THEN {}
      ELSE IF own = "lock" /\ l.mu[s] # Free THEN {}
      ELSE IF nxt = "serving"
      THEN IF l1.mu[callee] # Free THEN {}
           ELSE {[l1 EXCEPT !.mu[callee] = <<s, c, "handler">>]}
      ELSE IF pc = "serving"
      THEN {[l1 EXCEPT !.mu[callee] = Free]}
      ELSE {l1}

\* ----------------------------------------------------------------- actions
Init ==
  /\ vs = VsInit
  /\ pinged = {}
  /\ promoted = {}
  /\ kv = [s \in Replicas |-> KvInit]
  /\ transfers = [s \in Replicas |-> {}]
  /\ call = NoCall
  /\ ck = [currentPrimary |-> NoServer, op |-> NoOp, puts |-> 0, got |-> <<>>]
  /\ acks = <<>>
  /\ applied = {}
  /\ synced = [s \in Replicas |-> NoSync]
  /\ kills = 0
  /\ locks = LocksInit

\* ticker: one period passes, then checkFailuresAndPromote under vs.mu; views
\* are numbered up to max
TickUpTo(max) ==
  /\ \E st \in CheckFailuresAndPromote(Elapse(vs)) :
       /\ st.currentView.ViewNumber <= max
       /\ vs' = st
       /\ pinged' = IF st.currentView.ViewNumber = vs.currentView.ViewNumber
                    THEN pinged ELSE {}
  /\ promoted' = promoted \cup {f \in Promotion(Elapse(vs)) :
                                    f[1] \in Replicas => kv[f[1]].dead}
  /\ UNCHANGED kvVars

Tick == TickUpTo(MaxView)

\* the ticker of a view service that is pinged from any address
VaTick == TickUpTo(VaMaxView)

\* Ping RPC from any address, advertising any view number
AnyPing ==
  /\ \E name \in Servers, n \in 0..VaMaxView :
       /\ vs' = VsPing(vs, name, n)
       /\ pinged' = PingedAfter(pinged, vs, name, n)
  /\ UNCHANGED <<promoted, kvVars>>

\* pingLoop / ping at replica s: the Ping RPC and the installation of its reply,
\* with at most m transferState goroutines of s at a time
KvPingUpTo(s, m) ==
  LET n == kv[s].currentView.ViewNumber
      st == VsPing(vs, s, n)
      started == SpawnedByView(kv[s], s, st.currentView)
  IN  /\ ~kv[s].dead
      /\ \A i \in 1..Len(StartOrder) :
            StartOrder[i] = s => \A j \in 1..(i-1) : StartOrder[j] \in Registered(vs)
      /\ Cardinality(transfers[s] \cup started) <= m
      /\ vs' = st
      /\ pinged' = PingedAfter(pinged, vs, s, n)
      /\ kv' = [kv EXCEPT ![s] = InstallView(@, s, st.currentView)]
      /\ transfers' = [transfers EXCEPT ![s] = @ \cup started]
      /\ UNCHANGED <<locks, promoted, call, ck, acks, applied, synced, kills>>

KvPing(s) == KvPingUpTo(s, MaxTransfers)

\* transferState, lines 176-182
TransferStart(s) ==
  \E t \in transfers[s] :
    /\ t.pc = "start"
    /\ kv' = [kv EXCEPT ![s].syncing = TRUE]
    /\ transfers' = [transfers EXCEPT ![s] =
         (@ \ {t}) \cup {[t EXCEPT !.pc = "send", !.dataCopy = kv[s].data]}]
    /\ UNCHANGED <<locks, vs, pinged, promoted, call, ck, acks, applied, synced, kills>>

\* transferState, lines 187-204: Dial fails (lines 188-194), or SyncState runs at
\* the backup
TransferSend(s) ==
  \E t \in transfers[s] :
    /\ t.pc = "send"
    /\ IF kv[t.backup].dead
       THEN /\ kv' = [kv EXCEPT ![s].syncing = FALSE]
            /\ transfers' = [transfers EXCEPT ![s] = @ \ {t}]
            /\ UNCHANGED synced
       ELSE /\ kv' = [kv EXCEPT ![t.backup] = SyncState(@, t.dataCopy)]
            /\ transfers' = [transfers EXCEPT ![s] =
                 (@ \ {t}) \cup {[t EXCEPT !.pc = "sent"]}]
            /\ synced' = [synced EXCEPT ![t.backup] = SnapshotSent(t)]
    /\ UNCHANGED <<locks, vs, pinged, promoted, call, ck, acks, applied, kills>>

\* A failed SyncState call that returns without clearing syncing.
TransferFailKeepsSyncing(s) ==
  \E t \in transfers[s] :
    /\ t.pc = "sent"
    /\ kv[t.backup].dead
    /\ transfers' = [transfers EXCEPT ![s] = @ \ {t}]
    /\ UNCHANGED <<locks, vs, pinged, promoted, kv, call, ck, acks, applied, synced, kills>>

\* transferState, lines 205-211: the call fails because the backup went away
TransferFail(s) ==
  \E t \in transfers[s] :
    /\ t.pc = "sent"
    /\ kv[t.backup].dead
    /\ kv' = [kv EXCEPT ![s].syncing = FALSE]
    /\ transfers' = [transfers EXCEPT ![s] = @ \ {t}]
    /\ UNCHANGED <<locks, vs, pinged, promoted, call, ck, acks, applied, synced, kills>>

\* transferState, lines 213-231: the call returned; take the queue over
TransferDone(s) ==
  \E t \in transfers[s] :
    /\ t.pc = "sent"
    /\ kv' = [kv EXCEPT ![s].syncing = FALSE, ![s].pendingQueue = <<>>]
    /\ transfers' = [transfers EXCEPT ![s] =
         (@ \ {t}) \cup
         (IF kv[s].pendingQueue # <<>>
          THEN {[t EXCEPT !.pc = "drain", !.pending = kv[s].pendingQueue,
                          !.put = [pc |-> "entry", backup |-> NoServer]]}
          ELSE {})]
    /\ synced' = [synced EXCEPT ![t.backup].done = TRUE]
    /\ UNCHANGED <<locks, vs, pinged, promoted, call, ck, acks, applied, kills>>

\* The drain loop moves to its next element (lines 225-228).
Advance(t) ==
  IF Len(t.pending) > 1
  THEN {[t EXCEPT !.pending = Tail(@), !.put = [pc |-> "entry", backup |-> NoServer]]}
  ELSE {}

\* transferState line 227: Put's first critical section, for the head of pending
DrainEntry(s) ==
  \E t \in transfers[s] :
    /\ t.pc = "drain" /\ t.put.pc = "entry"
    /\ LET how == PutEntry(kv[s])
       IN  /\ kv' = IF how = "queue"
                    THEN [kv EXCEPT ![s] = Enqueue(@, Head(t.pending))] ELSE kv
           /\ transfers' = [transfers EXCEPT ![s] =
                (@ \ {t}) \cup
                (IF how = "proceed" THEN {[t EXCEPT !.put = AfterEntry(kv[s])]}
                 ELSE Advance(t))]
    /\ UNCHANGED <<locks, vs, pinged, promoted, call, ck, acks, applied, synced, kills>>

\* transferState line 227: Put's call of ForwardUpdate
DrainForward(s) ==
  \E t \in transfers[s] :
    /\ t.pc = "drain" /\ t.put.pc = "forward"
    /\ kv' = Forwarded(kv, t.put.backup, Head(t.pending))
    /\ transfers' = [transfers EXCEPT ![s] =
         (@ \ {t}) \cup {[t EXCEPT !.put.pc = "apply"]}]
    /\ synced' = ForwardSent(synced, kv, t.put.backup, Head(t.pending))
    /\ UNCHANGED <<locks, vs, pinged, promoted, call, ck, acks, applied, kills>>

\* transferState line 227: Put's second critical section
DrainApply(s) ==
  \E t \in transfers[s] :
    /\ t.pc = "drain" /\ t.put.pc = "apply"
    /\ kv' = [kv EXCEPT ![s] = ApplyPut(@, Head(t.pending))]
    /\ transfers' = [transfers EXCEPT ![s] = (@ \ {t}) \cup Advance(t)]
    /\ applied' = applied \cup {<<kv[s].currentView.ViewNumber, s>>}
    /\ UNCHANGED <<locks, vs, pinged, promoted, call, ck, acks, synced, kills>>

\* The client program calls ck.Put(k, v); v numbers the client's Puts.
ClientPut ==
  \E k \in Keys :
    /\ ck.op.type = "none"
    /\ ck.puts < MaxPuts
    /\ ck' = [ck EXCEPT !.op = [type |-> "Put", Key |-> k, Value |-> ck.puts + 1],
                        !.puts = @ + 1]
    /\ UNCHANGED <<locks, vs, pinged, promoted, kv, transfers, call, acks, applied, synced, kills>>

\* client.go updatePrimary, from the retry loops (lines 48-49, 83-84)
UpdatePrimary ==
  /\ ck.op.type # "none"
  /\ ck.currentPrimary = NoServer
  /\ LET p == vs.currentView.Primary
     IN  /\ p # NoServer
         /\ ~kv[p].dead
         /\ ck' = [ck EXCEPT !.currentPrimary = p]
  /\ UNCHANGED <<locks, vs, pinged, promoted, kv, transfers, call, acks, applied, synced, kills>>

\* client.go Put, lines 92-106, with the first critical section of the handler
CallPut ==
  LET s == ck.currentPrimary
      args == [Key |-> ck.op.Key, Value |-> ck.op.Value]
  IN  /\ ck.op.type = "Put"
      /\ s # NoServer
      /\ call.pc = "none"
      /\ IF kv[s].dead \/ PutEntry(kv[s]) = "ErrNotPrimary"
         THEN /\ ck' = PutTurn(ck, kv[s].dead, "ErrNotPrimary")
              /\ UNCHANGED <<kv, call, acks>>
         ELSE IF PutEntry(kv[s]) = "queue"
         THEN /\ kv' = [kv EXCEPT ![s] = Enqueue(@, args)]
              /\ ck' = PutTurn(ck, FALSE, "OK")
              /\ acks' = Append(acks, Ack(args, s, kv[s], TRUE))
              /\ UNCHANGED call
         ELSE /\ call' = [pc |-> AfterEntry(kv[s]).pc, server |-> s, args |-> args,
                          backup |-> AfterEntry(kv[s]).backup]
              /\ UNCHANGED <<kv, ck, acks>>
      /\ UNCHANGED <<locks, vs, pinged, promoted, transfers, applied, synced, kills>>

\* Put, lines 277-297, for the client's call
CallForward ==
  /\ call.pc = "forward"
  /\ kv' = Forwarded(kv, call.backup, call.args)
  /\ call' = [call EXCEPT !.pc = "apply"]
  /\ synced' = ForwardSent(synced, kv, call.backup, call.args)
  /\ UNCHANGED <<locks, vs, pinged, promoted, transfers, ck, acks, applied, kills>>

\* Put, lines 299-305, for the client's call: apply and answer OK
CallApply ==
  LET s == call.server
  IN  /\ call.pc = "apply"
      /\ kv' = [kv EXCEPT ![s] = ApplyPut(@, call.args)]
      /\ call' = NoCall
      /\ ck' = PutTurn(ck, FALSE, "OK")
      /\ acks' = Append(acks, Ack(call.args, s, kv[s], FALSE))
      /\ applied' = applied \cup {<<kv[s].currentView.ViewNumber, s>>}
      /\ UNCHANGED <<locks, vs, pinged, promoted, transfers, synced, kills>>

\* client.go Get, lines 46-74: one turn of the retry loop.  The turn either
\* resolves the primary (updatePrimary), or calls Get there; a failed call
\* clears the cached primary, a successful one returns GetReply and changes
\* nothing, so a Get that is still retrying is a client free to call again.
GetAttempt ==
  LET s == ck.currentPrimary
      p == vs.currentView.Primary
  IN  /\ ck.op.type = "none"
      /\ IF s = NoServer
         THEN /\ p # NoServer
              /\ ~kv[p].dead
              /\ ck' = [ck EXCEPT !.currentPrimary = p]
         ELSE /\ kv[s].dead \/ kv[s].role # "primary"
              /\ ck' = [ck EXCEPT !.currentPrimary = NoServer]
      /\ UNCHANGED <<locks, vs, pinged, promoted, kv, transfers, call, acks, applied, synced, kills>>

\* The client program calls ck.Get(k).
ClientGet ==
  \E k \in Keys :
    /\ ck.op.type = "none"
    /\ ck' = [ck EXCEPT !.op = [type |-> "Get", Key |-> k, Value |-> NoValue],
                        !.got = <<>>]
    /\ UNCHANGED <<locks, vs, pinged, promoted, kv, transfers, call, acks, applied, synced, kills>>

\* client.go Get, lines 56-73, with the Get handler at the cached primary
\* (kvserver lines 235-253), which writes nothing.
CallGet ==
  LET s == ck.currentPrimary
  IN  /\ ck.op.type = "Get"
      /\ s # NoServer
      /\ ck' = GetTurn(ck, kv[s].dead, GetReply(kv[s], ck.op.Key))
      /\ UNCHANGED <<locks, vs, pinged, promoted, kv, transfers, call, acks, applied, synced, kills>>

\* The process of replica s is killed: its memory and goroutines are gone, and
\* a client call it was serving fails (client.go lines 97-104).
Kill(s) ==
  /\ ~kv[s].dead
  /\ kills < MaxKills
  /\ kills' = kills + 1
  /\ kv' = [kv EXCEPT ![s] = [KvInit EXCEPT !.dead = TRUE]]
  /\ transfers' = [transfers EXCEPT ![s] = {}]
  /\ synced' = [synced EXCEPT ![s] = NoSync]
  /\ IF call.pc # "none" /\ call.server = s
     THEN /\ call' = NoCall
          /\ ck' = PutTurn(ck, TRUE, "")
     ELSE UNCHANGED <<call, ck>>
  /\ UNCHANGED <<locks, vs, pinged, promoted, acks, applied>>

\* GetView RPC: the reply is vs.currentView; only rpcCount, a test counter that
\* nothing reads, changes.
GetView ==
  /\ vs' = vs
  /\ UNCHANGED <<pinged, promoted, kvVars>>

NextVA == VaTick \/ AnyPing \/ GetView

SpecVA == Init /\ [][NextVA]_vars

Next ==
  \/ Tick
  \/ \E s \in Replicas : KvPing(s)
  \/ \E s \in Replicas : TransferStart(s)
  \/ \E s \in Replicas : TransferSend(s)
  \/ \E s \in Replicas : TransferFail(s)
  \/ \E s \in Replicas : TransferDone(s)
  \/ \E s \in Replicas : DrainEntry(s)
  \/ \E s \in Replicas : DrainForward(s)
  \/ \E s \in Replicas : DrainApply(s)
  \/ ClientPut
  \/ UpdatePrimary
  \/ CallPut
  \/ CallForward
  \/ CallApply
  \/ GetAttempt
  \/ \E s \in Replicas : Kill(s)

Spec == Init /\ [][Next]_vars

\* The system with a client program that calls Get as well as Put.
NextGet ==
  \/ Tick
  \/ \E s \in Replicas : KvPing(s)
  \/ \E s \in Replicas : TransferStart(s)
  \/ \E s \in Replicas : TransferSend(s)
  \/ \E s \in Replicas : TransferFail(s)
  \/ \E s \in Replicas : TransferDone(s)
  \/ \E s \in Replicas : DrainEntry(s)
  \/ \E s \in Replicas : DrainForward(s)
  \/ \E s \in Replicas : DrainApply(s)
  \/ ClientPut
  \/ ClientGet
  \/ UpdatePrimary
  \/ CallPut
  \/ CallForward
  \/ CallApply
  \/ CallGet
  \/ \E s \in Replicas : Kill(s)

SpecGet == Init /\ [][NextGet]_vars

\* ForwardUpdate on its own: replicas in any role, with any store over two
\* keys, receive ForwardUpdate RPCs with any arguments, any number of times.
\* call keeps the RPC delivered last: a Put handler, at a primary that is not
\* represented, is past its forward of call.args to call.backup.
FwdKeys == {"a", "b"}

InitForward ==
  /\ vs = VsInit
  /\ pinged = {}
  /\ promoted = {}
  /\ kv \in [Replicas ->
              {[KvInit EXCEPT !.role = role, !.data = d] :
                 role \in {"idle", "primary", "backup"},
                 d \in [FwdKeys -> 0..MaxPuts]}]
  /\ transfers = [s \in Replicas |-> {}]
  /\ call = NoCall
  /\ ck = [currentPrimary |-> NoServer, op |-> NoOp, puts |-> 0, got |-> <<>>]
  /\ acks = <<>>
  /\ applied = {}
  /\ synced = [s \in Replicas |-> NoSync]
  /\ kills = 0
  /\ locks = LocksInit

\* One ForwardUpdate RPC is served at s (lines 309-321).
DeliverForward ==
  \E s \in Replicas, k \in FwdKeys, v \in 1..MaxPuts :
    LET args == [Key |-> k, Value |-> v]
    IN  /\ kv' = [kv EXCEPT ![s] = ForwardUpdate(@, args)]
        /\ call' = [pc |-> "apply", server |-> NoServer, args |-> args, backup |-> s]
        /\ UNCHANGED <<locks, vs, pinged, promoted, transfers, ck, acks, applied, synced, kills>>

SpecForward == InitForward /\ [][DeliverForward]_vars

\* The goroutines of the two replicas and the mutexes, each replica calling the
\* view service and the other replica at the same time.
Proceed(s, c) ==
  /\ locks' \in Advanced(locks, s, c)
  /\ UNCHANGED <<vs, pinged, promoted, kv, transfers, call, ck, acks, applied, synced, kills>>

NextLocks == \E s \in Replicas, c \in Callers : Proceed(s, c)

SpecLocks == Init /\ [][NextLocks]_vars

\* The view service and the replicas with no client traffic: what the tickers
\* and the Go scheduler guarantee is that the ticker of the view service fires,
\* the pingLoop of a live replica pings and a started goroutine runs on.  The
\* crashes are under no obligation.
NextRecovery ==
  \/ VaTick
  \/ \E s \in Replicas : KvPing(s)
  \/ \E s \in Replicas : TransferStart(s)
  \/ \E s \in Replicas : TransferSend(s)
  \/ \E s \in Replicas : TransferFail(s)
  \/ \E s \in Replicas : TransferDone(s)
  \/ \E s \in Replicas : Kill(s)

\* A step of the transferState goroutine of s.
TransferState(s) ==
  TransferStart(s) \/ TransferSend(s) \/ TransferFail(s) \/ TransferDone(s)

FairRecovery ==
  /\ WF_vars(VaTick)
  /\ \A s \in Replicas : WF_vars(KvPing(s)) /\ WF_vars(TransferState(s))

SpecRecovery == Init /\ [][NextRecovery]_vars /\ FairRecovery

\* The view service and the replicas over enough views for a primary to lose
\* its backup and be given one again while the transferState goroutine of the
\* earlier view is still running.
OverlapView == 4

OverlapTransfers == 2

NextOverlap ==
  \/ TickUpTo(OverlapView)
  \/ \E s \in Replicas : KvPingUpTo(s, OverlapTransfers)
  \/ \E s \in Replicas : TransferStart(s)
  \/ \E s \in Replicas : TransferSend(s)
  \/ \E s \in Replicas : TransferFail(s)
  \/ \E s \in Replicas : TransferDone(s)
  \/ \E s \in Replicas : Kill(s)

SpecOverlap == Init /\ [][NextOverlap]_vars

\* ================================================================== claims

\* C1  Acknowledgement safety: the view service never publishes a next view
\* whose primary is B when the view before it had primary A # B, unless A has
\* sent a Ping advertising the number of the view that is being left, while that
\* view was current.
AckSafety ==
  [][(/\ vs'.currentView.ViewNumber = vs.currentView.ViewNumber + 1
      /\ vs.currentView.Primary # NoServer
      /\ vs'.currentView.Primary # NoServer
      /\ vs'.currentView.Primary # vs.currentView.Primary)
     => vs.currentView.Primary \in pinged]_vars

\* C6  Over every sequence of Ping, GetView and tick, the view number of the
\* view service never decreases.
ViewNumberMonotone ==
  [][vs'.currentView.ViewNumber >= vs.currentView.ViewNumber]_vars

\* C6 witness: the view has advanced several times and its primary was removed.
PrimaryRemoved ==
  vs.currentView.ViewNumber >= 3 /\ vs.currentView.Primary = NoServer

\* C7  Every change of the view raises the view number by exactly 1: no step
\* of the view service (a Ping, a GetView, one tick) skips a view number.
OneViewPerChange ==
  [][vs'.currentView # vs.currentView
     => vs'.currentView.ViewNumber = vs.currentView.ViewNumber + 1]_vars

\* ------------------------------------------------------- steps of a Put
\* This step is the second critical section of a Put at s (line 301).
AppliesPut(s) ==
  /\ ~kv'[s].dead
  /\ \/ call.pc = "apply" /\ call.server = s /\ call'.pc = "none"
     \/ \E t \in transfers[s] :
          t.pc = "drain" /\ t.put.pc = "apply" /\ t \notin transfers'[s]

\* This step is the client's Put at s being answered OK after line 301.
AnswersPut(s) ==
  /\ ~kv'[s].dead
  /\ call.pc = "apply" /\ call.server = s /\ call'.pc = "none"

\* This step is a Put of p calling ForwardUpdate at b, and b applies the update.
ForwardsTo(p, b) ==
  /\ ~kv[b].dead /\ kv[b].role = "backup"
  /\ \/ /\ call.pc = "forward" /\ call.server = p /\ call.backup = b
        /\ call'.pc = "apply"
     \/ \E t \in transfers[p] :
          /\ t.pc = "drain" /\ t.put.pc = "forward" /\ t.put.backup = b
          /\ t \notin transfers'[p] /\ ~kv'[p].dead

\* The Puts of key k answered OK, in order.
AcksOf(k) == SelectSeq(acks, LAMBDA a : a.Key = k)

\* Replica p has no Put left to apply: none queued, none being drained, none
\* being served.
Quiescent(p) ==
  /\ kv[p].pendingQueue = <<>>
  /\ transfers[p] = {}
  /\ ~(call.pc # "none" /\ call.server = p)

\* C2  Failover preserves data: once the primary P has crashed and the view
\* service has promoted its backup Q, a Get at Q, which has installed the view
\* that makes it primary, returns for every key the last value whose Put P
\* answered OK as primary.
FailoverKeepsData ==
  \A k \in Keys :
    AcksOf(k) # <<>> =>
      LET a == AcksOf(k)[Len(AcksOf(k))]
          q == vs.currentView.Primary
      IN  (/\ a.view.Primary = a.server
           /\ kv[a.server].dead
           /\ <<a.server, q>> \in promoted
           /\ ~kv[q].dead
           /\ kv[q].currentView = vs.currentView
           /\ ck.op.type = "none")
          => GetReply(kv[q], k) = [Value |-> a.Value, Err |-> "OK"]

\* C3  Synchronous replication: when the primary P of the current view, whose
\* backup B is alive, answers OK to a Put it received in that view and did not
\* queue, B's store already holds the written value.
SyncReplication ==
  [][\A p \in Replicas :
       LET b == kv[p].currentView.Backup
       IN  (/\ AnswersPut(p)
            /\ kv[p].currentView = vs.currentView
            /\ vs.currentView.Primary = p
            /\ b # NoServer /\ call.backup = b
            /\ ~kv[b].dead
            /\ IsAlive(vs, p) /\ IsAlive(vs, b))
           => kv'[b].data[call.args.Key] = call.args.Value]_vars

\* C4  For each view number at most one replica applies client Puts while its
\* currentView carries that number.
OneWriterPerView ==
  \A e1 \in applied, e2 \in applied : e1[1] = e2[1] => e1[2] = e2[2]

\* C5  A replica applies a client write to its store only when, at that moment,
\* its currentView names it as primary.
AppliesOnlyAsPrimary ==
  [][\A s \in Replicas : AppliesPut(s) => kv[s].currentView.Primary = s]_vars

\* C8  Read your writes: after primary P answered OK to Put(k, v), a Get(k) that
\* the client issues next, while P is still primary in the same view, returns v
\* (a state transfer may be in progress).
ReadYourWrites ==
  \A k \in Keys :
    AcksOf(k) # <<>> =>
      LET a == AcksOf(k)[Len(AcksOf(k))]
          p == a.server
      IN  (/\ a.view.Primary = p
           /\ ~kv[p].dead
           /\ kv[p].currentView = a.view
           /\ ck.op.type = "none")
          => GetReply(kv[p], k) = [Value |-> a.Value, Err |-> "OK"]

\* C9  Acceptance order: when primary P answered OK to Put(k, v1) and then to
\* Put(k, v2) in one view, and P, still in that view, has applied every Put it
\* accepted, P's store holds v2 for k.
WriteOrder ==
  \A k \in Keys :
    Len(AcksOf(k)) >= 2 =>
      LET a1 == AcksOf(k)[Len(AcksOf(k)) - 1]
          a2 == AcksOf(k)[Len(AcksOf(k))]
          p == a2.server
      IN  (/\ a1.server = p /\ a1.view = a2.view
           /\ a2.view.Primary = p
           /\ ~kv[p].dead
           /\ kv[p].currentView = a2.view
           /\ Quiescent(p)
           /\ ck.op.type = "none")
          => kv[p].data[k] = a2.Value

\* C11  After a state transfer to backup B has completed successfully, and
\* while B is the live backup of the view the transfer was made for, B's store
\* equals the snapshot updated by exactly the writes the primary forwarded to B
\* after the snapshot was installed.
SnapshotPlusForwards ==
  \A b \in Replicas :
    (/\ synced[b].done
     /\ ~kv[b].dead
     /\ vs.currentView.Backup = b
     /\ vs.currentView.ViewNumber = synced[b].viewNumber)
    => kv[b].data = synced[b].store

\* C12  Every Put that a primary answered OK while syncing was true gets
\* applied once the state transfer is over: a live primary with no transferState
\* goroutine left holds no Put in its pendingQueue.
QueuedPutsDrained ==
  \A s \in Replicas :
    (~kv[s].dead /\ kv[s].role = "primary" /\ transfers[s] = {})
    => kv[s].pendingQueue = <<>>

\* C13  The backup is never behind the primary: when the primary P and the
\* backup B of the current view have both installed it, the state transfer to B
\* has completed and no Put or ForwardUpdate is in flight, B's store equals P's.
BackupNotBehind ==
  LET view == vs.currentView
      p == view.Primary
      b == view.Backup
  IN  (/\ p \in Replicas /\ b \in Replicas
       /\ ~kv[p].dead /\ ~kv[b].dead
       /\ kv[p].currentView = view /\ kv[b].currentView = view
       /\ synced[b].done /\ synced[b].viewNumber = view.ViewNumber
       /\ ~kv[p].syncing
       /\ Quiescent(p)
       /\ call.pc = "none")
      => kv[b].data = kv[p].data

\* C14  In every reachable state of the view service, primaryAcked is true if
\* and only if the current view has no primary or the current primary has sent
\* a Ping advertising the current view number.
AckedIffPinged ==
  vs.primaryAcked <=>
    (vs.currentView.Primary = NoServer \/ vs.currentView.Primary \in pinged)

\* C15  The view number of a live replica's currentView never decreases, over
\* any interleaving of its pings with ticks and the other replicas' pings.
ReplicaViewsMonotone ==
  [][\A s \in Replicas :
       ~kv'[s].dead
       => kv'[s].currentView.ViewNumber >= kv[s].currentView.ViewNumber]_vars

\* C15 witness: a live replica has installed view after view, up to number 3.
ReplicaInstalledViews ==
  \E s \in Replicas : ~kv[s].dead /\ kv[s].currentView.ViewNumber >= 3

\* Replica p, the primary of a view with no backup, has been killed, replica q
\* is running, and the view numbers of the model leave room for the recovery.
SolePrimaryKilled(p, q) ==
  /\ p # q
  /\ kv[p].dead /\ ~kv[q].dead
  /\ vs.currentView.Primary = p /\ vs.currentView.Backup = NoServer
  /\ vs.currentView.ViewNumber + 4 <= VaMaxView

\* The view names as primary a replica that is running.
LivePrimary ==
  vs.currentView.Primary \in Replicas /\ ~kv[vs.currentView.Primary].dead

\* Every replica has been killed: none is left to keep pinging.
NoReplicaLeft == \A s \in Replicas : kv[s].dead

\* C16 as stated  Recovery: after the sole replica (primary, no backup) is
\* killed, a replica that keeps pinging is eventually named primary.
RecoveryAlways ==
  (\E p \in Replicas, q \in Replicas : SolePrimaryKilled(p, q))
    ~> (LivePrimary \/ NoReplicaLeft)

\* C16  Recovery, when the killed sole primary had acknowledged its view: a
\* replica that keeps pinging is eventually named primary.
RecoveryAfterAck ==
  (\E p \in Replicas, q \in Replicas :
      SolePrimaryKilled(p, q) /\ vs.primaryAcked)
    ~> (LivePrimary \/ NoReplicaLeft)

\* C16 witness: a replica was killed and the other one, alone, is the primary of
\* a later view.
RecoveredPrimary ==
  \E p \in Replicas, q \in Replicas :
    /\ kv[p].dead /\ ~kv[q].dead
    /\ vs.currentView.Primary = q /\ vs.currentView.Backup = NoServer
    /\ vs.currentView.ViewNumber >= 3

\* C17  The view numbered 0 never names a primary, and the view that follows it
\* is number 1, with a primary and no backup: the tick that designates the first
\* primary designates no backup.
FirstView ==
  /\ [](vs.currentView.ViewNumber = 0 => vs.currentView = View0)
  /\ [][(vs.currentView.ViewNumber = 0 /\ vs'.currentView # vs.currentView)
        => /\ vs'.currentView.ViewNumber = 1
           /\ vs'.currentView.Primary # NoServer
           /\ vs'.currentView.Backup = NoServer]_vars

\* C17 witness: the first primary was designated while another live server had
\* registered, and that server was not made backup.
FirstPrimaryAlone ==
  /\ vs.currentView.ViewNumber = 1
  /\ \E n \in Registered(vs) :
       n # vs.currentView.Primary /\ vs.servers[n].Alive
       /\ vs.servers[n].SincePing = TickerInterval

\* The client's Get is answered by a live primary whose store lacks the key.
GetOfAbsentKey ==
  /\ ck.op.type = "Get"
  /\ ck.currentPrimary # NoServer
  /\ ~kv[ck.currentPrimary].dead
  /\ kv[ck.currentPrimary].role = "primary"
  /\ kv[ck.currentPrimary].data[ck.op.Key] = NoValue

\* C18  A Get at a primary whose store lacks the key is answered ErrNoKey with
\* no value and changes nothing at any replica; the client's Get then returns
\* the empty string at once: it keeps its cached primary and does not retry.
GetNoKey ==
  [][(GetOfAbsentKey /\ CallGet)
     => /\ GetReply(kv[ck.currentPrimary], ck.op.Key)
             = [Value |-> NoValue, Err |-> "ErrNoKey"]
        /\ kv' = kv
        /\ ck'.op = NoOp
        /\ ck'.got = <<NoValue>>
        /\ ck'.currentPrimary = ck.currentPrimary]_vars

\* C18 witness: Get returned the empty string from a live primary that lacks
\* the key.
GotEmptyString ==
  /\ ck.got = <<NoValue>>
  /\ ck.op = NoOp
  /\ ck.currentPrimary # NoServer
  /\ ~kv[ck.currentPrimary].dead
  /\ kv[ck.currentPrimary].role = "primary"
  /\ \A k \in Keys : kv[ck.currentPrimary].data[k] = NoValue

\* The client's call reaches a live replica whose role is not primary.
CallAtNonPrimary ==
  /\ ck.op.type \in {"Get", "Put"}
  /\ ck.currentPrimary # NoServer
  /\ ~kv[ck.currentPrimary].dead
  /\ kv[ck.currentPrimary].role # "primary"
  /\ CallGet \/ CallPut

\* C19  A replica whose role is backup or idle answers the client's Get and
\* Put with ErrNotPrimary: no replica's store, queue, syncing flag or view
\* changes, no Put handler is left running and nothing is acknowledged; the
\* client keeps its operation and forgets the server.
NonPrimaryRefuses ==
  [][CallAtNonPrimary
     => /\ GetReply(kv[ck.currentPrimary], ck.op.Key).Err = "ErrNotPrimary"
        /\ PutEntry(kv[ck.currentPrimary]) = "ErrNotPrimary"
        /\ kv' = kv
        /\ call' = call
        /\ acks' = acks
        /\ ck' = [ck EXCEPT !.currentPrimary = NoServer]]_vars

\* C19 witness: with no process killed, the client's second Put has lost its
\* cached server, the primary that answered the first one and is primary no
\* more: that server refused a call.
RefusedByDemoted ==
  /\ kills = 0
  /\ locks = LocksInit
  /\ Len(acks) = 1
  /\ ck.op.type = "Put"
  /\ ck.currentPrimary = NoServer
  /\ kv[acks[1].server].role # "primary"

\* C20  The client's Put returns only in a step in which a live replica, the
\* one the client called, answers OK to that Put.  An attempt that fails, by an
\* RPC error or by ErrNotPrimary, clears the cached primary and keeps the Put;
\* the Put is then retried only after GetView has named a primary again.
PutReturnsOnOK ==
  [][ck.op.type = "Put"
     => /\ ck'.op \in {ck.op, NoOp}
        /\ ck'.op = NoOp
           => /\ ck.currentPrimary # NoServer /\ ~kv[ck.currentPrimary].dead
              /\ Len(acks') = Len(acks) + 1
              /\ acks' = Append(acks, acks'[Len(acks')])
              /\ acks'[Len(acks')].Key = ck.op.Key
              /\ acks'[Len(acks')].Value = ck.op.Value
              /\ acks'[Len(acks')].server = ck.currentPrimary
        /\ (ck.currentPrimary # NoServer /\ ck'.currentPrimary # ck.currentPrimary)
           => /\ ck'.currentPrimary = NoServer
              /\ ck'.op = ck.op /\ acks' = acks
              /\ \/ kv'[ck.currentPrimary].dead
                 \/ PutEntry(kv[ck.currentPrimary]) = "ErrNotPrimary"
        /\ (ck.currentPrimary = NoServer /\ ck' # ck)
           => /\ ck' = [ck EXCEPT !.currentPrimary = vs.currentView.Primary]
              /\ vs.currentView.Primary # NoServer]_vars

\* C20 witness: the server that was serving the Put was killed after it had
\* forwarded the Put; the client has cleared its cached primary and still
\* holds the Put, which no server has answered.
PutFailedNotReturned ==
  /\ ck.op.type = "Put"
  /\ ck.currentPrimary = NoServer
  /\ acks = <<>>
  /\ kills = 1
  /\ \E b \in Replicas : ~kv[b].dead /\ kv[b].data[ck.op.Key] = ck.op.Value

\* ------------------------------------------------------ the rules of a tick
\* The ViewServer as the tick that starts now sees it after its mark-dead loop
\* (lines 143-151).
Marked == MarkDead(Elapse(vs))

\* The tick that starts now finds the primary of the view not alive.
PrimaryFoundDead ==
  /\ Marked.currentView.Primary # NoServer
  /\ ~IsAlive(Marked, Marked.currentView.Primary)

\* The tick that starts now finds the backup of the view not alive.
BackupFoundDead ==
  /\ Marked.currentView.Backup # NoServer
  /\ ~IsAlive(Marked, Marked.currentView.Backup)

\* C21  Safety gate: a tick that finds the primary not alive while primaryAcked
\* is false leaves the primary of the view as it is: no promotion, no removal,
\* no new primary.
UnackedPrimaryKept ==
  [][(PrimaryFoundDead /\ ~vs.primaryAcked /\ VaTick)
     => /\ vs'.currentView.Primary = vs.currentView.Primary
        /\ ~vs'.primaryAcked]_vars

\* C21 witness: ticks have declared the unacknowledged primary dead and it is
\* still the primary, with a live server registered that could replace it.
DeadUnackedPrimary ==
  /\ vs.currentView.Primary # NoServer
  /\ ~vs.primaryAcked
  /\ ~vs.servers[vs.currentView.Primary].Alive
  /\ \E n \in Registered(vs) : vs.servers[n].Alive

\* C22  Promotion: a tick that finds the primary not alive, primaryAcked true
\* and the backup B alive, leaves the view (number + 1, B, no backup) with
\* primaryAcked false.  While primaryAcked is false no step designates a
\* backup, and only a Ping of the primary advertising the current view number
\* makes it true.
PromotionRule ==
  [][/\ (/\ PrimaryFoundDead /\ vs.primaryAcked
         /\ IsAlive(Marked, vs.currentView.Backup)
         /\ VaTick)
        => /\ vs'.currentView =
                [ViewNumber |-> vs.currentView.ViewNumber + 1,
                 Primary |-> vs.currentView.Backup,
                 Backup |-> NoServer]
           /\ ~vs'.primaryAcked
     /\ ~vs.primaryAcked
        => /\ vs'.currentView.Backup \in {vs.currentView.Backup, NoServer}
           /\ vs'.primaryAcked
              => /\ vs'.currentView = vs.currentView
                 /\ vs.currentView.Primary \in pinged']_vars

\* C22 witness: the first failover.  The backup of view 2 is the primary of
\* view 3, unacknowledged and without a backup, while a third server is alive.
PromotedUnacked ==
  /\ vs.currentView.ViewNumber = 3
  /\ vs.currentView.Backup = NoServer
  /\ ~vs.primaryAcked
  /\ \E f \in promoted : f[2] = vs.currentView.Primary
  /\ \E n \in Registered(vs) :
       n # vs.currentView.Primary /\ vs.servers[n].Alive

\* C23  Removal: a tick that finds the primary not alive, primaryAcked true and
\* no live backup (no backup, or a backup that is not alive either) leaves a
\* view that does not name the dead primary and has no backup.
RemovalRule ==
  [][(/\ PrimaryFoundDead /\ vs.primaryAcked
      /\ ~IsAlive(Marked, vs.currentView.Backup)
      /\ VaTick)
     => /\ vs'.currentView.Primary # vs.currentView.Primary
        /\ vs'.currentView.Backup = NoServer]_vars

\* The view of the tick that starts now once its backup check (lines 180-188)
\* has run.
AfterBackupCheck == CheckBackup(CheckPrimary(Marked)).currentView

\* C24  Backup removal: a tick that finds the backup of the view not alive
\* advances to the view (number + 1, same primary, no backup), whatever
\* primaryAcked is.  The tick leaves that view, or the view that designates
\* another backup under it; its primary is the primary it started with.
BackupRemovalRule ==
  [][(BackupFoundDead /\ VaTick)
     => /\ AfterBackupCheck = [ViewNumber |-> vs.currentView.ViewNumber + 1,
                               Primary |-> vs.currentView.Primary,
                               Backup |-> NoServer]
        /\ \/ vs'.currentView = AfterBackupCheck
           \/ /\ vs'.currentView.ViewNumber = AfterBackupCheck.ViewNumber + 1
              /\ vs'.currentView.Backup \notin {NoServer, vs.currentView.Backup}
        /\ vs'.currentView.Primary = vs.currentView.Primary
        /\ vs'.primaryAcked = vs.primaryAcked]_vars

\* C24 witness: view 3 has the primary of view 2 and no backup, and is
\* acknowledged before any Ping advertised its number: the tick removed the
\* backup of view 2.
BackupRemoved ==
  /\ vs.currentView.ViewNumber = 3
  /\ vs.currentView.Primary # NoServer
  /\ vs.currentView.Backup = NoServer
  /\ vs.primaryAcked
  /\ pinged = {}
  /\ vs.servers[vs.currentView.Primary].Alive

\* C25  Tie-break: a tick that starts with no primary and primaryAcked true
\* designates the alive server that registered earliest, and primaryAcked
\* becomes false.  idleServers keeps the servers that were never designated in
\* the order of their first Ping, so no alive server may stand before the
\* chosen one in it.
EarliestRegisteredPrimary ==
  [][(/\ vs.currentView.Primary = NoServer /\ vs.primaryAcked
      /\ VaTick
      /\ vs'.currentView.Primary # NoServer)
     => /\ ~vs'.primaryAcked
        /\ \A i \in 1..Len(vs.idleServers), j \in 1..Len(vs.idleServers) :
             (i < j /\ vs.idleServers[j] = vs'.currentView.Primary)
             => ~IsAlive(Marked, vs.idleServers[i])]_vars

\* C26  A backup is designated only by a tick, under a primary that the view
\* already had, with primaryAcked true and the backup's place empty (the view
\* had no backup, or this tick has just removed a dead one); the server
\* designated is alive at that tick and is not the primary.
BackupDesignationRule ==
  [][vs'.currentView.Backup \notin {NoServer, vs.currentView.Backup}
     => /\ VaTick
        /\ vs.currentView.Primary # NoServer
        /\ vs'.currentView.Primary = vs.currentView.Primary
        /\ vs.primaryAcked
        /\ vs.currentView.Backup = NoServer \/ BackupFoundDead
        /\ IsAlive(Marked, vs'.currentView.Backup)
        /\ vs'.currentView.Backup # vs'.currentView.Primary]_vars

\* C26 witness: the tick has just designated a backup (no Ping has advertised
\* the new number yet) and had another alive server to choose.
BackupDesignated ==
  /\ vs.currentView.Backup # NoServer
  /\ pinged = {}
  /\ \E n \in Registered(vs) :
       /\ n \notin {vs.currentView.Primary, vs.currentView.Backup}
       /\ vs.servers[n].Alive

\* What a Ping of server name may change: the caller's record, which is fresh
\* and alive afterwards, and the idle list, which a caller that was not
\* registered joins at its end; primaryAcked may be set, never cleared.
OnlyCallerRecorded(name) ==
  /\ Registered(vs') = Registered(vs) \cup {name}
  /\ \A n \in Registered(vs) \ {name} : vs'.servers[n] = vs.servers[n]
  /\ vs'.servers[name] = [SincePing |-> 0, Alive |-> TRUE]
  /\ \/ vs'.idleServers = vs.idleServers
     \/ name \notin Registered(vs) /\ vs'.idleServers = Append(vs.idleServers, name)
  /\ vs.primaryAcked => vs'.primaryAcked

\* C27  Ping and GetView leave currentView as it is, and reply with it: only
\* the tick changes the view.  GetView changes nothing; a Ping changes only
\* the record of its caller and possibly primaryAcked.
RpcsKeepView ==
  [][/\ vs'.currentView # vs.currentView => VaTick
     /\ GetView => vs' = vs
     /\ AnyPing
        => /\ vs'.currentView = vs.currentView
           /\ \E name \in Servers : OnlyCallerRecorded(name)
           /\ \A name \in Servers, n \in 0..VaMaxView :
                VsPing(vs, name, n).currentView = vs.currentView]_vars

\* C27 witness: the primary has just acknowledged a view that has a backup.
PrimaryJustAcked ==
  /\ vs.currentView.Primary \in pinged
  /\ vs.currentView.Backup # NoServer
  /\ vs.primaryAcked
  /\ vs.servers[vs.currentView.Primary].SincePing = 0

\* The client's Put reaches a live primary whose syncing flag is set.
PutWhileSyncing ==
  /\ ck.op.type = "Put"
  /\ ck.currentPrimary # NoServer
  /\ ~kv[ck.currentPrimary].dead
  /\ kv[ck.currentPrimary].role = "primary"
  /\ kv[ck.currentPrimary].syncing
  /\ CallPut

\* C28  A Put that reaches a primary while syncing is true is appended to the
\* end of pendingQueue and answered OK in the same step: nothing is forwarded
\* and no store changes, the primary's included.
QueuedWhileSyncing ==
  [][PutWhileSyncing
     => LET s == ck.currentPrimary
            args == [Key |-> ck.op.Key, Value |-> ck.op.Value]
        IN  /\ kv' = [kv EXCEPT ![s].pendingQueue = Append(@, args)]
            /\ call' = NoCall /\ call = NoCall
            /\ synced' = synced /\ applied' = applied
            /\ ck'.op = NoOp
            /\ Len(acks') = Len(acks) + 1
            /\ acks'[Len(acks')].queued
            /\ acks'[Len(acks')].Value = args.Value]_vars

\* C28 witness: both Puts of the client were answered OK and wait in the queue
\* of the syncing primary, in the order of their calls; its store has neither.
TwoPutsQueued ==
  \E s \in Replicas :
    /\ ~kv[s].dead /\ kv[s].syncing
    /\ Len(kv[s].pendingQueue) = 2
    /\ kv[s].pendingQueue[1].Value = 1 /\ kv[s].pendingQueue[2].Value = 2
    /\ Len(acks) = 2 /\ ck.op = NoOp
    /\ kv[s].data = EmptyData

\* This step is the end of a state transfer of s in failure: the Dial fails
\* (lines 187-194) or the SyncState call fails (lines 204-211).
TransferEndsInFailure(s) ==
  \/ TransferFail(s)
  \/ TransferSend(s) /\ \E t \in transfers[s] : t.pc = "send" /\ kv[t.backup].dead

\* C29  When a state transfer ends in failure the writes queued during it are
\* drained all the same: the step leaves pendingQueue empty, with the queued
\* writes in the primary's store or handed to the drain loop.
DrainedAfterFailure ==
  [][\A s \in Replicas :
       TransferEndsInFailure(s)
       => /\ kv'[s].pendingQueue = <<>>
          /\ \/ kv[s].pendingQueue = <<>>
             \/ \E t \in transfers'[s] : t.pc = "drain" /\ t.pending = kv[s].pendingQueue
             \/ kv'[s].data[kv[s].pendingQueue[Len(kv[s].pendingQueue)].Key]
                  = kv[s].pendingQueue[Len(kv[s].pendingQueue)].Value]_vars

\* C30  When the state transfer to a backup fails, the primary clears syncing
\* and lastBackup, so that a later view that still names that backup is a new
\* backup to it (handleViewChange line 164) and starts the transfer again.
FailureForgetsBackup ==
  [][\A s \in Replicas :
       TransferEndsInFailure(s)
       => /\ ~kv'[s].syncing
          /\ kv'[s].lastBackup = NoServer]_vars

ForwardUpdateRule ==
  /\ [](\A s \in Replicas, k \in FwdKeys, v \in 1..MaxPuts :
          LET args == [Key |-> k, Value |-> v]
              once == ForwardUpdate(kv[s], args)
          IN  /\ ForwardUpdateErr(kv[s]) =
                   IF kv[s].role = "backup" THEN "OK" ELSE "ErrNotPrimary"
              /\ ForwardUpdate(once, args) = once)
  /\ [][call' # call \/ kv' # kv
        => LET s == call'.backup
               args == call'.args
           IN  IF kv[s].role # "backup"
               THEN kv' = kv
               ELSE /\ kv'[s].data[args.Key] = args.Value
                    /\ \A k \in FwdKeys \ {args.Key} :
                         kv'[s].data[k] = kv[s].data[k]
                    /\ kv' = [kv EXCEPT ![s].data = kv'[s].data]]_vars

\* C32 witness: a backup was served ForwardUpdate(b, 2) last; it holds b = 2
\* and still has a = 1, and the other replica, not a backup, holds neither.
ForwardedToBackup ==
  /\ call.pc = "apply" /\ call.server = NoServer
  /\ call.args = [Key |-> "b", Value |-> 2]
  /\ kv[call.backup].role = "backup"
  /\ kv[call.backup].data = [k \in FwdKeys |-> IF k = "b" THEN 2 ELSE 1]
  /\ \E s \in Replicas \ {call.backup} :
       kv[s].role = "primary" /\ kv[s].data = [k \in FwdKeys |-> NoValue]

\* C33  No goroutine of a replica holds the replica's mutex while its outbound
\* RPC (Ping, SyncState, ForwardUpdate) is pending, and replicas that call each
\* other at the same time do not deadlock: as long as a goroutine has not
\* finished, some goroutine can move.
NoLockAcrossCall ==
  /\ \A s \in Replicas, c \in Callers :
       locks.at[s][c] \in {"calling", "serving", "returned"}
       => locks.mu[s] # <<s, c>>
  /\ \/ \A s \in Replicas, c \in Callers : locks.at[s][c] = "done"
     \/ \E s \in Replicas, c \in Callers : Advanced(locks, s, c) # {}

\* C33 witness: the Put handlers of both replicas have sent their
\* ForwardUpdate to each other; the one of R1 is being served under the mutex
\* of R2, the one of R2 waits because the ping goroutine of R1 holds R1's mutex.
CrossedCalls ==
  /\ locks.at["R1"]["Put"] = "serving"
  /\ locks.mu["R2"] = <<"R1", "Put", "handler">>
  /\ locks.at["R2"]["Put"] = "calling"
  /\ locks.mu["R1"] = <<"R1", "ping">>

\* C34  The view service promotes the backup B of a view only when B has
\* installed a snapshot that the primary of that view sent for it: SyncState
\* has run at B for a transfer started in the view that designated B.
PromotedAfterSnapshot ==
  [][(/\ vs.currentView.Backup # NoServer
      /\ vs'.currentView.Primary = vs.currentView.Backup
      /\ vs'.currentView.ViewNumber > vs.currentView.ViewNumber)
     => /\ synced[vs.currentView.Backup].installed
        /\ synced[vs.currentView.Backup].viewNumber = vs.currentView.ViewNumber]_vars

\* C35  Between the critical sections of a live replica, its role is the one
\* its currentView gives to its address: primary if the view's primary is the
\* replica, else backup if the view's backup is, else idle.
RoleFollowsView ==
  \A s \in Replicas :
    ~kv[s].dead => kv[s].role = NewRole(kv[s].currentView, s)

\* C35 witness: both replicas know view 3, in which one is the primary and the
\* other, named by an earlier view, is idle again.
RolesRecomputed ==
  \E p \in Replicas, q \in Replicas :
    /\ ~kv[p].dead /\ ~kv[q].dead
    /\ kv[p].currentView.ViewNumber = 3 /\ kv[q].currentView = kv[p].currentView
    /\ kv[p].role = "primary" /\ kv[q].role = "idle"
    /\ q \notin {vs.idleServers[i] : i \in 1..Len(vs.idleServers)}

\* C36  The primary of the view changes only in a tick, and only if the view
\* has no primary or the last Ping of its primary is older than DeadInterval at
\* that tick: a primary that is alive at every tick stays, whatever the other
\* servers do.
LivePrimaryStays ==
  [][vs'.currentView.Primary # vs.currentView.Primary
     => /\ VaTick
        /\ \/ vs.currentView.Primary = NoServer
           \/ Elapse(vs).servers[vs.currentView.Primary].SincePing > DeadInterval]_vars

\* C36 witness: a tick has just found the primary's last Ping exactly
\* DeadInterval old and kept it, while it declared another server dead.
PrimaryOnTheBrink ==
  /\ vs.currentView.Primary # NoServer
  /\ vs.servers[vs.currentView.Primary].Alive
  /\ vs.servers[vs.currentView.Primary].SincePing = DeadInterval
  /\ \E n \in Registered(vs) : ~vs.servers[n].Alive

\* C37  Every view of the view service is well formed: a view with a backup
\* has a primary, the primary and the backup are different servers, and every
\* server the view names has sent a Ping (it has a record in vs.servers).
WellFormedView ==
  /\ vs.currentView.Backup # NoServer => vs.currentView.Primary # NoServer
  /\ vs.currentView.Primary # NoServer
     => /\ vs.currentView.Primary # vs.currentView.Backup
        /\ vs.currentView.Primary \in Registered(vs)
  /\ vs.currentView.Backup # NoServer => vs.currentView.Backup \in Registered(vs)

\* C37 witness: after a failover the view names a primary and a backup again,
\* and a third server, now declared dead, is registered.
ViewAfterFailover ==
  /\ vs.currentView.ViewNumber >= 4
  /\ vs.currentView.Primary # NoServer /\ vs.currentView.Backup # NoServer
  /\ \E f \in promoted : f[2] = vs.currentView.Primary
  /\ \E n \in Registered(vs) :
       n \notin {vs.currentView.Primary, vs.currentView.Backup} /\ ~vs.servers[n].Alive

\* A SyncState RPC sent by another replica's transferState runs at s in this step.
SyncStateAt(s) ==
  \E p \in Replicas \ {s} : \E t \in transfers[p] :
     /\ t.pc = "send" /\ t.backup = s /\ ~kv[s].dead
     /\ t \notin transfers'[p]
     /\ [t EXCEPT !.pc = "sent"] \in transfers'[p]

\* s is the primary of the view service's current view and acts as its primary.
ActingPrimary(s) ==
  /\ ~kv[s].dead
  /\ vs.currentView.Primary = s
  /\ kv[s].role = "primary"
  /\ kv[s].currentView.ViewNumber = vs.currentView.ViewNumber

\* C38  A SyncState that runs at the acting primary of the current view leaves
\* its store as it was: a snapshot of a former primary that arrives late does
\* not replace the store of the replica promoted since.
PrimaryStoreKept ==
  [][\A s \in Replicas :
       ActingPrimary(s) /\ SyncStateAt(s) => kv'[s].data = kv[s].data]_vars

\* A transferState goroutine of s is between its first critical section
\* (line 177) and the one that ends the transfer (lines 191, 208, 216).
TransferRunning(s) == \E t \in transfers[s] : t.pc \in {"send", "sent"}

\* C39  syncing is true only while a transfer is running, and the step that
\* ends a transfer, with or without an error, leaves syncing false.
SyncingCleared ==
  /\ [](\A s \in Replicas : kv[s].syncing => TransferRunning(s))
  /\ [][\A s \in Replicas :
          (\E t \in transfers[s] :
              /\ t.pc \in {"send", "sent"}
              /\ t \notin transfers'[s]
              /\ [t EXCEPT !.pc = "sent"] \notin transfers'[s])
          => ~kv'[s].syncing]_vars

\* C39 witness: two transfers of one primary, for successive views, have both
\* set syncing and neither has ended.
TransfersOverlap ==
  \E s \in Replicas : \E t, u \in transfers[s] :
     /\ t.viewNumber < u.viewNumber
     /\ t.pc \in {"send", "sent"} /\ u.pc \in {"send", "sent"}
     /\ kv[s].syncing

\* C10  Sync fence: no write forwarded by the primary is applied by the new
\* backup while the state transfer the primary started for that backup has not
\* yet installed its snapshot there.
SyncFence ==
  [][\A p \in Replicas, b \in Replicas :
       ForwardsTo(p, b)
       => ~\E t \in transfers[p] : t.backup = b /\ t.pc \in {"start", "send"}]_vars

====
